---- MODULE Spec2Model ----
(***************************************************************************)
(* The waSCC host facade (src/src/lib.rs), the in-process message bus      *)
(* (src/src/bus/inproc.rs) and the workers the facade spawns, as a state   *)
(* machine.  Facade operations run on caller threads; every acquisition of *)
(* a registry lock or a channel operation is one atomic step.              *)
(***************************************************************************)
EXTENDS Naturals, Sequences, FiniteSets, TLC

\* ------------------------------------------------------------------ bounds
\* caller threads are t1 .. t<NumThreads>
NumThreads == 2
\* facade calls started in one behaviour
MaxCalls == 2
\* workers spawned in one behaviour (the extras provider of new() included)
MaxWorkers == 3
\* milliseconds that pass in one step of the clock of a lattice request
TickMillis == 100

Threads == 1 .. NumThreads
WorkerIds == 1 .. MaxWorkers

\* --------------------------------------------------------------- constants
SYSTEM_ACTOR == "system"
CAPABILITY_ID == "wascc:extras"
HTTP == "wascc:http_server"
OP_BIND_ACTOR == "BindActor"
OP_REMOVE_ACTOR == "RemoveActor"
OP_INITIALIZE == "Initialize"
\* the operation of the hot-swap message, and an operation of the actor's own
OP_PERFORM_LIVE_UPDATE == "PerformLiveUpdate"
OP_PING == "ping"
DEFAULT_BINDING == "default"

None == "<None>"
NoError == "<NoError>"

Pks == {"MA", "MB"}

\* Actors a caller may hand to add_actor: the public key, the capabilities the
\* signed claims list, whether the token validates, and the module revision.
MkActor(pk, cps, valid, rev) ==
    [pk |-> pk, caps |-> cps, valid |-> valid, rev |-> rev]
Actors ==
    { MkActor("MA", {HTTP}, TRUE, 1),
      MkActor("MA", {"MA"}, TRUE, 2),
      MkActor("MB", {HTTP, CAPABILITY_ID}, TRUE, 1),
      MkActor("MB", {HTTP}, FALSE, 1) }
NoActor == MkActor("", {}, FALSE, 0)

\* Native capability providers a caller may hand to add_native_capability.
MkCap(capid, binding, desc) ==
    [capid |-> capid, binding_name |-> binding, desc |-> desc]
NativeCaps ==
    { MkCap(HTTP, DEFAULT_BINDING, d) : d \in {"d1", "d2"} }
NoCap == MkCap("", "", "")

\* Authorization hooks a caller may set: only_MA accepts the tokens of MA only.
Hooks == { "only_MA" }
HookVerdict(hook, actor) == hook = "only_MA" /\ actor.pk = "MA"

\* Capability ids, binding names, operations and payloads callers pass.
OptBindings == {None, "alt"}
BindTargets == { << HTTP, None >>, << HTTP, "alt" >>, << CAPABILITY_ID, None >>,
                 << "MA", None >> }
\* the payload of the call_actor that thread t issues
MsgOf(t) == "m" \o ToString(t)
SandboxError == "guest call failed"

\* ------------------------------------------------------------------- state
VARIABLES
    claims,         \* WasccHost.claims: pk -> Claims
    caps,           \* WasccHost.caps: <<binding, capid>> -> descriptor
    bindings,       \* WasccHost.bindings: list of <<pk, capid, binding>>
    terminators,    \* WasccHost.terminators: subject -> worker (its shutdown sender)
    auth_hook,      \* WasccHost.auth_hook: None or a hook
    subscriptions,  \* InprocBus.subscriptions: subject -> worker (its channel pair)
    workers,        \* the worker threads, in spawn order
    pc,             \* per caller thread: the step it is at
    call,           \* per caller thread: the operation and its arguments
    loc,            \* per caller thread: the locals of the operation
    ret,            \* per caller thread: the value the operation returned
    ncalls,         \* facade calls started so far
    lattice_subs,   \* DistributedBus.subs: subject -> handler (a queue subscription)
    nc              \* DistributedBus.nc: the connection, with the queue
                    \* subscriptions and the requests the server holds for it

vars == << claims, caps, bindings, terminators, auth_hook, subscriptions,
           workers, pc, call, loc, ret, ncalls, lattice_subs, nc >>

\* -------------------------------------------------------- pure functions
\* bus::actor_subject
actor_subject(pk) == "wasmbus.actor." \o pk

\* bus::provider_subject
provider_subject(capid, binding) == "wasmbus.provider." \o capid \o "." \o binding

\* Option<String>::unwrap_or("default")
unwrap_or_default(binding_name) ==
    IF binding_name = None THEN DEFAULT_BINDING ELSE binding_name

\* str::starts_with("M"): the identifiers of the model that begin with M
starts_with_M(s) == s \in Pks

\* The claims a token carries.
ClaimsOf(actor) == [subject |-> actor.pk, caps |-> actor.caps, rev |-> actor.rev]
NoClaims == [subject |-> "", caps |-> {}, rev |-> 0]

\* authz::can_invoke
can_invoke(c, capid) ==
    \/ capid \in c.caps
    \/ capid = CAPABILITY_ID
    \/ c.subject = SYSTEM_ACTOR

\* authz::enforce_validation: Ok iff the token validates
enforce_validation(actor) == actor.valid

\* check_auth that consults no hook
check_auth_accepts(hook, actor) == TRUE

\* WasccHost::check_auth: the hook's verdict, accept when no hook is set
check_auth(hook, actor) == IF hook = None THEN TRUE ELSE HookVerdict(hook, actor)

\* route_key
route_key(binding, id) == << binding, id >>

\* Invocation::new
Invocation(origin, target, operation, msg) ==
    [origin |-> origin, target |-> target, operation |-> operation, msg |-> msg]
TargetActor(pk) == [kind |-> "Actor", id |-> pk, binding |-> ""]
TargetCapability(capid, binding) == [kind |-> "Capability", id |-> capid, binding |-> binding]

\* inthost::gen_config_invocation
gen_config_invocation(actor, capid, binding) ==
    Invocation(SYSTEM_ACTOR, TargetCapability(capid, binding), OP_BIND_ACTOR, actor)

\* InvocationResponse
Response(msg, error) == [msg |-> msg, error |-> error]
NoResp == Response("", NoError)

\* ------------------------------------------------------ registry helpers
\* HashMap::contains_key
contains_key(m, k) == k \in DOMAIN m

\* HashMap::insert
insert(m, k, v) == (k :> v) @@ m

\* HashMap::remove
remove(m, k) == [x \in DOMAIN m \ {k} |-> m[x]]

\* authz::register_claims: inserts into the claims map, overwriting
register_claims(cl, subject, c) == insert(cl, subject, c)

\* WasccHost::record_binding: appends the triple to the bindings list
record_binding(bs, actor, capid, binding) == Append(bs, << actor, capid, binding >>)

\* WasccHost::claims_for_actor
claims_for_actor(pk) == IF contains_key(claims, pk) THEN claims[pk] ELSE NoClaims

\* authz::get_all_claims: one (subject, claims) pair per entry of the map
RECURSIVE get_all_claims(_)
get_all_claims(cl) ==
    IF DOMAIN cl = {} THEN << >>
    ELSE LET k == CHOOSE x \in DOMAIN cl : TRUE
         IN  << << k, cl[k] >> >> \o get_all_claims(remove(cl, k))

\* WasccHost::actors
actors == get_all_claims(claims)

\* ---------------------------------------------------------- in-process bus
\* subscribe with the first subscriber of a subject kept
subscribe_keep_first(subs, subject, ch) ==
    IF contains_key(subs, subject) THEN subs ELSE insert(subs, subject, ch)

\* InprocBus::subscribe: insert, silently replacing an earlier entry
subscribe(subs, subject, ch) == insert(subs, subject, ch)

\* unsubscribe with the whole table cleared
unsubscribe_all(subs, subject) == << >>

\* InprocBus::unsubscribe: remove, a missing subject is no error
unsubscribe(subs, subject) == remove(subs, subject)

\* InprocBus::invoke, the lookup: the channel pair of subject, if any
has_subscriber(subs, subject) == contains_key(subs, subject)

\* The holders of the subscriptions read lock: InprocBus::invoke keeps the
\* guard of its match scrutinee until the reply has been received.
ThreadReaders == { t \in Threads : pc[t] \in {"ba_recv", "ca_recv", "bi_recv", "rp_recv"} }
WorkerReaders == { w \in DOMAIN workers : workers[w].state = "drain_wait" }
\* subscriptions.write() is granted when no read guard is alive
CanWriteSubscriptions == ThreadReaders = {} /\ WorkerReaders = {}

\* ------------------------------------------------------------- return values
Ok(val) == [kind |-> "Ok", err |-> "", val |-> val]
Err(kind, text) == [kind |-> "Err", err |-> kind, val |-> text]
Panic(text) == [kind |-> "Panic", err |-> "", val |-> text]
NoRet == [kind |-> "None", err |-> "", val |-> ""]
NoSubscribers == "no subscribers"

\* ---------------------------------------------------------------- callers
MkCall(op, actor, cap, pk, capid, binding_name, msg, hook) ==
    [op |-> op, actor |-> actor, cap |-> cap, pk |-> pk, capid |-> capid,
     binding_name |-> binding_name, msg |-> msg, hook |-> hook,
     subject |-> "", ch |-> 0, operation |-> OP_INITIALIZE]
NoCall == MkCall("", NoActor, NoCap, "", "", None, "", None)

Calls(t) ==
    { MkCall("add_actor", a, NoCap, "", "", None, "", None) : a \in Actors }
    \cup { MkCall("remove_actor", NoActor, NoCap, pk, "", None, "", None) : pk \in Pks }
    \cup { MkCall("add_native_capability", NoActor, c, "", "", None, "", None) : c \in NativeCaps }
    \cup { MkCall("remove_native_capability", NoActor, NoCap, "", HTTP, b, "", None) :
             b \in OptBindings }
    \cup { MkCall("bind_actor", NoActor, NoCap, pk, x[1], x[2], "", None) :
             pk \in Pks, x \in BindTargets }
    \cup { MkCall("call_actor", NoActor, NoCap, pk, "", None, MsgOf(t), None) : pk \in Pks }
    \cup { MkCall("set_auth_hook", NoActor, NoCap, "", "", None, "", h) : h \in Hooks }

NoInv == Invocation("", TargetActor(""), "", "")
NoLoc == [sub |-> "", ch |-> 0, inv |-> NoInv, resp |-> NoResp]

Entry(op) ==
    CASE op = "add_actor" -> "aa_check"
      [] op = "remove_actor" -> "ra"
      [] op = "add_native_capability" -> "an_check"
      [] op = "remove_native_capability" -> "rn"
      [] op = "bind_actor" -> "ba_check"
      [] op = "call_actor" -> "ca_check"
      [] op = "set_auth_hook" -> "sh"
      [] op = "replace_actor" -> "rp"
      [] op = "subscribe" -> "bs"
      [] op = "unsubscribe" -> "bu"
      [] op = "invoke" -> "bi"
      [] op = "lattice_subscribe" -> "ls"
      [] op = "lattice_unsubscribe" -> "lu"
      [] op = "lattice_invoke" -> "li"

\* Calls that have still to spawn their worker.
Spawning == { t \in Threads : pc[t] \in {"aa_check", "aa_auth", "aa_register", "aa_spawn",
                                         "an_check", "an_insert", "an_spawn"} }

Goto(t, p) == pc' = [pc EXCEPT ![t] = p]
Finish(t, r) == pc' = [pc EXCEPT ![t] = "done"] /\ ret' = [ret EXCEPT ![t] = r]

\* A caller thread starts one of the facade operations cs.
BeginWith(t, cs) ==
    /\ pc[t] = "idle"
    /\ ncalls < MaxCalls
    /\ \E c \in cs :
         /\ c.op \in {"add_actor", "add_native_capability"}
               => Len(workers) + Cardinality(Spawning) < MaxWorkers
         /\ call' = [call EXCEPT ![t] = c]
         /\ pc' = [pc EXCEPT ![t] = Entry(c.op)]
    /\ ncalls' = ncalls + 1
    /\ UNCHANGED << claims, caps, bindings, terminators, auth_hook, subscriptions,
                    workers, loc, ret, lattice_subs, nc >>

\* A caller thread starts any facade operation.
Begin(t) == BeginWith(t, Calls(t))

\* The public keys whose add_actor is in progress on some thread.
AddingPks == { call[u].actor.pk : u \in { v \in Threads : pc[v] \notin {"idle", "done"}
                                                        /\ call[v].op = "add_actor" } }

\* Begin for callers that never overlap two add_actor calls for one public key.
BeginSerial(t) ==
    BeginWith(t, { c \in Calls(t) : c.op = "add_actor" => c.actor.pk \notin AddingPks })

\* The caller has its result; the thread is free for the next call.
Return(t) ==
    /\ pc[t] = "done"
    /\ pc' = [pc EXCEPT ![t] = "idle"]
    /\ call' = [call EXCEPT ![t] = NoCall]
    /\ loc' = [loc EXCEPT ![t] = NoLoc]
    /\ ret' = [ret EXCEPT ![t] = NoRet]
    /\ UNCHANGED << claims, caps, bindings, terminators, auth_hook, subscriptions,
                    workers, ncalls, lattice_subs, nc >>

\* --------------------------------------------------------------- lattice bus
\* lattice.rs 12
DEFAULT_LATTICE_RPC_TIMEOUT_MILLIS == 500

\* The values the environment may hold for LATTICE_RPC_TIMEOUT_MILLIS: unset,
\* empty, not a number, a number.
EnvValues == { None, "", "soon", "200" }

\* str::parse::<u64> on the values of the model
parse_u64(val) ==
    CASE val = "200" -> [ok |-> TRUE, val |-> 200]
      [] OTHER -> [ok |-> FALSE, val |-> 0]

\* lattice.rs 91-102
get_timeout(env) ==
    IF env = None THEN DEFAULT_LATTICE_RPC_TIMEOUT_MILLIS
    ELSE IF env = "" THEN DEFAULT_LATTICE_RPC_TIMEOUT_MILLIS
    ELSE IF parse_u64(env).ok THEN parse_u64(env).val
    ELSE DEFAULT_LATTICE_RPC_TIMEOUT_MILLIS

\* wascc_codec::serialize and deserialize: the wire form of a value
serialize(x) == << "msgpack", x >>
deserialize(data) == data[2]

\* A request the connection has published and not yet given up: the subject,
\* the payload, what the environment held for LATTICE_RPC_TIMEOUT_MILLIS when
\* it was made, the time waited, the queue subscription the server chose for
\* it (0: none), whether that handler has taken it, and the reply.
Request(subject, data, env, to) ==
    [subject |-> subject, data |-> data, env |-> env, elapsed |-> 0, to |-> to,
     taken |-> FALSE, replied |-> FALSE, reply |-> serialize(NoResp)]
NoRequest == Request("", serialize(NoInv), None, 0)

\* nats::connect: a connection with no queue subscription and no request
Connection == [qsubs |-> << >>, reqs |-> [t \in Threads |-> NoRequest]]

\* nats queue_subscribe with a handler: a queue subscription of the group
\* named after the subject, its handler thread idle (busy: the thread whose
\* request it is handling)
QueueSubscription(subject, ch) ==
    [subject |-> subject, ch |-> ch, live |-> TRUE, busy |-> 0]

\* The members of the queue group of a subject.
Members(subject) ==
    { sid \in DOMAIN nc.qsubs : nc.qsubs[sid].live /\ nc.qsubs[sid].subject = subject }

\* ----------------------------------------------------------------- workers
\* A worker thread: its subject, what it serves (an actor with its claims, or
\* the provider of a route key), its inbound and outbound
\* channels (inq, outq), the shutdown signals waiting on its terminator
\* channel, and its position: spawning, serving, draining, drain_wait,
\* cleanup, gone.  A draining worker keeps the binding rows it has still to
\* tear down (todo); rows are the rows the bindings list held for its public
\* key when it was told to stop, and sent the bus invocations it has issued
\* since (subject and operation).
MkWorker(kind, subject, pk, key, c) ==
    [kind |-> kind, subject |-> subject, pk |-> pk, key |-> key, claims |-> c,
     state |-> "spawning", inq |-> << >>, outq |-> << >>, term |-> 0,
     rows |-> << >>, todo |-> << >>, sent |-> << >>, wait |-> 0]

\* spawns::spawn_actor: the worker of an actor, subscribed to its actor subject
spawn_actor(actor) ==
    MkWorker("actor", actor_subject(actor.pk), actor.pk, << "", "" >>, ClaimsOf(actor))

\* spawns::spawn_native_capability: the worker of a provider
spawn_native_capability(capability) ==
    MkWorker("provider", provider_subject(capability.capid, capability.binding_name),
             "", route_key(capability.binding_name, capability.capid), NoClaims)

\* ------------------------------------------------------ WasccHost::add_actor
\* add_actor_is_duplicate with the check left out
add_actor_is_duplicate_never(cl, actor) == FALSE

\* lib.rs 179-184: the public key is already in the claims map
add_actor_is_duplicate(cl, actor) == contains_key(cl, actor.pk)

\* lib.rs 179-188
add_actor_check(t) ==
    /\ pc[t] = "aa_check"
    /\ IF add_actor_is_duplicate(claims, call[t].actor)
       THEN Finish(t, Err("MiscHost", "already in this host"))
       ELSE Goto(t, "aa_auth") /\ UNCHANGED ret
    /\ UNCHANGED << claims, caps, bindings, terminators, auth_hook, subscriptions,
                    workers, call, loc, ncalls, lattice_subs, nc >>

\* lib.rs 189-195
add_actor_auth(t) ==
    /\ pc[t] = "aa_auth"
    /\ IF ~enforce_validation(call[t].actor)
       THEN Finish(t, Err("ClaimsValidation", "invalid token"))
       ELSE IF ~check_auth(auth_hook, call[t].actor)
       THEN Finish(t, Err("Authorization", "Authorization hook denied access to module"))
       ELSE Goto(t, "aa_register") /\ UNCHANGED ret
    /\ UNCHANGED << claims, caps, bindings, terminators, auth_hook, subscriptions,
                    workers, call, loc, ncalls, lattice_subs, nc >>

\* add_actor_register with the claims filed under the bus subject
add_actor_register_by_subject(t) ==
    /\ pc[t] = "aa_register"
    /\ claims' = register_claims(claims, actor_subject(call[t].actor.pk),
                                 ClaimsOf(call[t].actor))
    /\ Goto(t, "aa_spawn")
    /\ UNCHANGED << caps, bindings, terminators, auth_hook, subscriptions,
                    workers, call, loc, ret, ncalls, lattice_subs, nc >>

\* lib.rs 197-201
add_actor_register(t) ==
    /\ pc[t] = "aa_register"
    /\ claims' = register_claims(claims, call[t].actor.pk, ClaimsOf(call[t].actor))
    /\ Goto(t, "aa_spawn")
    /\ UNCHANGED << caps, bindings, terminators, auth_hook, subscriptions,
                    workers, call, loc, ret, ncalls, lattice_subs, nc >>

\* lib.rs 203-218: spawn_actor(..)? returns the spawn step's error, or has
\* started the worker thread
add_actor_spawn(t) ==
    /\ pc[t] = "aa_spawn"
    /\ \E spawned \in BOOLEAN :
         IF spawned
         THEN /\ workers' = Append(workers, spawn_actor(call[t].actor))
              /\ loc' = [loc EXCEPT ![t].ch = Len(workers) + 1]
              /\ Goto(t, "aa_wait")
              /\ UNCHANGED ret
         ELSE /\ Finish(t, Err("Spawn", "spawn failed"))
              /\ UNCHANGED << workers, loc >>
    /\ UNCHANGED << claims, caps, bindings, terminators, auth_hook, subscriptions,
                    call, ncalls, lattice_subs, nc >>

\* add_actor_declares_extras that finds the extras capability in no token
add_actor_declares_extras_never(actor) == FALSE

\* lib.rs 220: actor.capabilities().contains(extras::CAPABILITY_ID)
add_actor_declares_extras(actor) == CAPABILITY_ID \in actor.caps

\* lib.rs 219-231: wg.wait(), then the forced binding to the extras provider
add_actor_wait(t) ==
    /\ pc[t] = "aa_wait"
    /\ workers[loc[t].ch].state # "spawning"
    /\ IF add_actor_declares_extras(call[t].actor)
       THEN Goto(t, "ba_check") /\ UNCHANGED ret
       ELSE Finish(t, Ok(""))
    /\ UNCHANGED << claims, caps, bindings, terminators, auth_hook, subscriptions,
                    workers, call, loc, ncalls, lattice_subs, nc >>

\* ------------------------------------------------- disconnected channels
\* The worker behind channel pair ch has died: the receiver of its inbound
\* channel and the sender of its outbound channel are dropped.
disconnected(ch) == workers[ch].state = "dead"

\* inproc.rs 34: s.0.send(inv).unwrap() on a disconnected channel is a
\* SendError, and the unwrap panics in the calling thread
send_disconnected == Panic("SendError")

\* inproc.rs 35: s.1.recv().unwrap() on an empty, disconnected channel is a
\* RecvError, and the unwrap panics in the calling thread
recv_disconnected == Panic("RecvError")

\* ----------------------------------------------------- WasccHost::bind_actor
\* The arguments of the bind_actor that thread t runs: its own call, or the
\* one add_actor makes (lib.rs 223-228).
BindArgs(t) ==
    IF call[t].op = "add_actor"
    THEN [actor |-> call[t].actor.pk, capid |-> CAPABILITY_ID, binding_name |-> None]
    ELSE [actor |-> call[t].pk, capid |-> call[t].capid,
          binding_name |-> call[t].binding_name]

\* bind_actor_claims with empty claims standing in for a missing entry
bind_actor_claims_or_empty(cl, actor) ==
    IF contains_key(cl, actor) THEN cl[actor]
    ELSE [subject |-> actor, caps |-> {}, rev |-> 0]

\* lib.rs 397-398
bind_actor_claims(cl, actor) == IF contains_key(cl, actor) THEN cl[actor] ELSE NoClaims

\* bind_actor_authorized with the can_invoke check left out
bind_actor_authorized_always(c, capid) == TRUE

\* lib.rs 403
bind_actor_authorized(c, capid) == can_invoke(c, capid)

\* tgt_subject that always takes the provider subject
tgt_subject_provider(actor, capid, binding) == provider_subject(capid, binding)

\* lib.rs 415-420
tgt_subject(actor, capid, binding) ==
    IF (actor = capid \/ actor = SYSTEM_ACTOR) /\ starts_with_M(capid)
    THEN actor_subject(actor)
    ELSE provider_subject(capid, binding)

\* lib.rs 397-421
bind_actor_check(t) ==
    LET a == BindArgs(t)
        c == bind_actor_claims(claims, a.actor)
        binding == unwrap_or_default(a.binding_name)
    IN  /\ pc[t] = "ba_check"
        /\ IF c = NoClaims
           THEN Finish(t, Err("MiscHost", "Attempted to bind non-existent actor"))
                /\ UNCHANGED loc
           ELSE IF ~bind_actor_authorized(c, a.capid)
           THEN Finish(t, Err("Authorization", "Unauthorized binding"))
                /\ UNCHANGED loc
           ELSE /\ loc' = [loc EXCEPT ![t].sub = tgt_subject(a.actor, a.capid, binding)]
                /\ Goto(t, "ba_invoke")
                /\ UNCHANGED ret
        /\ UNCHANGED << claims, caps, bindings, terminators, auth_hook, subscriptions,
                        workers, call, ncalls, lattice_subs, nc >>

\* lib.rs 422-423 and 435-438, inproc.rs 32-34 and 38-41: the lookup under the
\* read lock and the send on the subscriber's inbound channel
bind_actor_invoke(t) ==
    LET a == BindArgs(t)
        binding == unwrap_or_default(a.binding_name)
        inv == gen_config_invocation(a.actor, a.capid, binding)
    IN  /\ pc[t] = "ba_invoke"
        /\ IF has_subscriber(subscriptions, loc[t].sub)
              /\ disconnected(subscriptions[loc[t].sub])
           THEN /\ Finish(t, send_disconnected)
                /\ UNCHANGED << workers, loc >>
           ELSE IF has_subscriber(subscriptions, loc[t].sub)
           THEN /\ workers' = [workers EXCEPT ![subscriptions[loc[t].sub]].inq = Append(@, inv)]
                /\ loc' = [loc EXCEPT ![t].ch = subscriptions[loc[t].sub], ![t].inv = inv]
                /\ Goto(t, "ba_recv")
                /\ UNCHANGED ret
           ELSE /\ Finish(t, Err("CapabilityProvider", NoSubscribers))
                /\ UNCHANGED << workers, loc >>
        /\ UNCHANGED << claims, caps, bindings, terminators, auth_hook, subscriptions,
                        call, ncalls, lattice_subs, nc >>

\* bind_actor_accepts with the response's error ignored
bind_actor_accepts_any(inv_r) == TRUE

\* lib.rs 424-430: the response decides whether the binding is recorded
bind_actor_accepts(inv_r) == inv_r.error = NoError

\* inproc.rs 35-36, lib.rs 424-430: the blocking receive of the reply
bind_actor_recv(t) ==
    /\ pc[t] = "ba_recv"
    /\ workers[loc[t].ch].outq # << >>
    /\ LET inv_r == Head(workers[loc[t].ch].outq)
       IN  /\ workers' = [workers EXCEPT ![loc[t].ch].outq = Tail(@)]
           /\ loc' = [loc EXCEPT ![t].resp = inv_r]
           /\ IF bind_actor_accepts(inv_r)
              THEN Goto(t, "ba_record") /\ UNCHANGED ret
              ELSE Finish(t, Err("CapabilityProvider", inv_r.error))
    /\ UNCHANGED << claims, caps, bindings, terminators, auth_hook, subscriptions,
                    call, ncalls, lattice_subs, nc >>

\* inproc.rs 35: the blocking receive when the worker has died and has left
\* no reply behind
bind_actor_recv_disconnected(t) ==
    /\ pc[t] = "ba_recv"
    /\ workers[loc[t].ch].outq = << >>
    /\ disconnected(loc[t].ch)
    /\ Finish(t, recv_disconnected)
    /\ UNCHANGED << claims, caps, bindings, terminators, auth_hook, subscriptions,
                    workers, call, loc, ncalls, lattice_subs, nc >>

\* lib.rs 431-432
bind_actor_record(t) ==
    LET a == BindArgs(t)
    IN  /\ pc[t] = "ba_record"
        /\ bindings' = record_binding(bindings, a.actor, a.capid,
                                      unwrap_or_default(a.binding_name))
        /\ Finish(t, Ok(""))
        /\ UNCHANGED << claims, caps, terminators, auth_hook, subscriptions,
                        workers, call, loc, ncalls, lattice_subs, nc >>

\* ----------------------------------------------------- WasccHost::call_actor
\* lib.rs 454-465
call_actor_check(t) ==
    /\ pc[t] = "ca_check"
    /\ IF ~contains_key(claims, call[t].pk)
       THEN Finish(t, Err("MiscHost", "No such actor")) /\ UNCHANGED loc
       ELSE /\ loc' = [loc EXCEPT ![t].sub = actor_subject(call[t].pk)]
            /\ Goto(t, "ca_invoke")
            /\ UNCHANGED ret
    /\ UNCHANGED << claims, caps, bindings, terminators, auth_hook, subscriptions,
                    workers, call, ncalls, lattice_subs, nc >>

\* lib.rs 459-466 and 468, inproc.rs 32-34 and 38-41
call_actor_invoke(t) ==
    LET inv == Invocation(SYSTEM_ACTOR, TargetActor(call[t].pk), call[t].operation,
                          call[t].msg)
    IN  /\ pc[t] = "ca_invoke"
        /\ IF has_subscriber(subscriptions, loc[t].sub)
              /\ disconnected(subscriptions[loc[t].sub])
           THEN /\ Finish(t, send_disconnected)
                /\ UNCHANGED << workers, loc >>
           ELSE IF has_subscriber(subscriptions, loc[t].sub)
           THEN /\ workers' = [workers EXCEPT ![subscriptions[loc[t].sub]].inq = Append(@, inv)]
                /\ loc' = [loc EXCEPT ![t].ch = subscriptions[loc[t].sub], ![t].inv = inv]
                /\ Goto(t, "ca_recv")
                /\ UNCHANGED ret
           ELSE /\ Finish(t, Err("MiscHost", NoSubscribers))
                /\ UNCHANGED << workers, loc >>
        /\ UNCHANGED << claims, caps, bindings, terminators, auth_hook, subscriptions,
                        call, ncalls, lattice_subs, nc >>

\* lib.rs 467: what call_actor makes of the response the bus returned
call_actor_result(resp) == Ok(resp.msg)

\* inproc.rs 35-36, lib.rs 466-467
call_actor_recv(t) ==
    /\ pc[t] = "ca_recv"
    /\ workers[loc[t].ch].outq # << >>
    /\ LET resp == Head(workers[loc[t].ch].outq)
       IN  /\ workers' = [workers EXCEPT ![loc[t].ch].outq = Tail(@)]
           /\ loc' = [loc EXCEPT ![t].resp = resp]
           /\ Finish(t, call_actor_result(resp))
    /\ UNCHANGED << claims, caps, bindings, terminators, auth_hook, subscriptions,
                    call, ncalls, lattice_subs, nc >>

\* inproc.rs 35: the blocking receive when the worker has died and has left
\* no reply behind
call_actor_recv_disconnected(t) ==
    /\ pc[t] = "ca_recv"
    /\ workers[loc[t].ch].outq = << >>
    /\ disconnected(loc[t].ch)
    /\ Finish(t, recv_disconnected)
    /\ UNCHANGED << claims, caps, bindings, terminators, auth_hook, subscriptions,
                    workers, call, loc, ncalls, lattice_subs, nc >>

\* -------------------------------------------------- WasccHost::replace_actor
\* The hot-swap message: the new bytes and claims, addressed to the actor.
gen_liveupdate_invocation(new_actor) ==
    Invocation(SYSTEM_ACTOR, TargetActor(new_actor.pk), OP_PERFORM_LIVE_UPDATE, new_actor)

\* lib.rs 313-315: delegates to the swap path, which puts the hot-swap
\* message on the inbound channel of the actor's subject; a public key that
\* is not resident has no subscriber
replace_actor(t) ==
    LET inv == gen_liveupdate_invocation(call[t].actor)
        subject == actor_subject(call[t].actor.pk)
    IN  /\ pc[t] = "rp"
        /\ IF has_subscriber(subscriptions, subject)
           THEN /\ workers' = [workers EXCEPT ![subscriptions[subject]].inq = Append(@, inv)]
                /\ loc' = [loc EXCEPT ![t].sub = subject, ![t].ch = subscriptions[subject],
                                      ![t].inv = inv]
                /\ Goto(t, "rp_recv")
                /\ UNCHANGED ret
           ELSE /\ Finish(t, Err("MiscHost", NoSubscribers))
                /\ UNCHANGED << workers, loc >>
        /\ UNCHANGED << claims, caps, bindings, terminators, auth_hook, subscriptions,
                        call, ncalls, lattice_subs, nc >>

\* What replace_actor makes of the response the bus returned.
replace_actor_result(resp) ==
    IF resp.error = NoError THEN Ok("") ELSE Err("MiscHost", resp.error)

\* inproc.rs 35-36: the reply on the subscriber's outbound channel
replace_actor_recv(t) ==
    /\ pc[t] = "rp_recv"
    /\ workers[loc[t].ch].outq # << >>
    /\ LET resp == Head(workers[loc[t].ch].outq)
       IN  /\ workers' = [workers EXCEPT ![loc[t].ch].outq = Tail(@)]
           /\ loc' = [loc EXCEPT ![t].resp = resp]
           /\ Finish(t, replace_actor_result(resp))
    /\ UNCHANGED << claims, caps, bindings, terminators, auth_hook, subscriptions,
                    call, ncalls, lattice_subs, nc >>

\* --------------------------------------------------- WasccHost::remove_actor
\* lib.rs 303: terminators[&subject], the Index of a HashMap, panics on a
\* missing key
remove_actor_lookup(tm, subject) == IF contains_key(tm, subject) THEN tm[subject] ELSE 0

\* lib.rs 302-307
remove_actor(t) ==
    LET w == remove_actor_lookup(terminators, actor_subject(call[t].pk))
    IN  /\ pc[t] = "ra"
        /\ IF w = 0
           THEN Finish(t, Panic("key not found")) /\ UNCHANGED workers
           ELSE IF workers[w].state = "gone"
           THEN Finish(t, Panic("sending on a disconnected channel")) /\ UNCHANGED workers
           ELSE /\ workers' = [workers EXCEPT ![w].term = @ + 1]
                /\ Finish(t, Ok(""))
        /\ UNCHANGED << claims, caps, bindings, terminators, auth_hook, subscriptions,
                        call, loc, ncalls, lattice_subs, nc >>

\* ------------------------------------------ WasccHost::add_native_capability
\* lib.rs 336-341
add_native_capability_is_duplicate(cp, capability) ==
    contains_key(cp, << capability.binding_name, capability.capid >>)

\* lib.rs 335-345
add_native_capability_check(t) ==
    /\ pc[t] = "an_check"
    /\ IF add_native_capability_is_duplicate(caps, call[t].cap)
       THEN Finish(t, Err("CapabilityProvider", "cannot be bound to the same name twice"))
       ELSE Goto(t, "an_insert") /\ UNCHANGED ret
    /\ UNCHANGED << claims, caps, bindings, terminators, auth_hook, subscriptions,
                    workers, call, loc, ncalls, lattice_subs, nc >>

\* lib.rs 346-352
add_native_capability_insert(t) ==
    /\ pc[t] = "an_insert"
    /\ caps' = insert(caps, << call[t].cap.binding_name, call[t].cap.capid >>,
                      call[t].cap.desc)
    /\ Goto(t, "an_spawn")
    /\ UNCHANGED << claims, bindings, terminators, auth_hook, subscriptions,
                    workers, call, loc, ret, ncalls, lattice_subs, nc >>

\* lib.rs 353-362
add_native_capability_spawn(t) ==
    /\ pc[t] = "an_spawn"
    /\ \E spawned \in BOOLEAN :
         IF spawned
         THEN /\ workers' = Append(workers, spawn_native_capability(call[t].cap))
              /\ loc' = [loc EXCEPT ![t].ch = Len(workers) + 1]
              /\ Goto(t, "an_wait")
              /\ UNCHANGED ret
         ELSE /\ Finish(t, Err("Spawn", "spawn failed"))
              /\ UNCHANGED << workers, loc >>
    /\ UNCHANGED << claims, caps, bindings, terminators, auth_hook, subscriptions,
                    call, ncalls, lattice_subs, nc >>

\* lib.rs 363-364
add_native_capability_wait(t) ==
    /\ pc[t] = "an_wait"
    /\ workers[loc[t].ch].state # "spawning"
    /\ Finish(t, Ok(""))
    /\ UNCHANGED << claims, caps, bindings, terminators, auth_hook, subscriptions,
                    workers, call, loc, ncalls, lattice_subs, nc >>

\* --------------------------------------- WasccHost::remove_native_capability
\* remove_native_capability_subject with the binding name taken as given
remove_native_capability_subject_raw(capid, binding_name) ==
    provider_subject(capid, binding_name)

\* lib.rs 373-374
remove_native_capability_subject(capid, binding_name) ==
    provider_subject(capid, unwrap_or_default(binding_name))

\* lib.rs 368-383
remove_native_capability(t) ==
    LET subject == remove_native_capability_subject(call[t].capid, call[t].binding_name)
    IN  /\ pc[t] = "rn"
        /\ IF contains_key(terminators, subject)
           THEN IF workers[terminators[subject]].state = "gone"
                THEN Finish(t, Panic("sending on a disconnected channel"))
                     /\ UNCHANGED workers
                ELSE /\ workers' = [workers EXCEPT ![terminators[subject]].term = @ + 1]
                     /\ Finish(t, Ok(""))
           ELSE Finish(t, Err("MiscHost", "No such capability")) /\ UNCHANGED workers
        /\ UNCHANGED << claims, caps, bindings, terminators, auth_hook, subscriptions,
                        call, loc, ncalls, lattice_subs, nc >>

\* -------------------------------------------------- WasccHost::set_auth_hook
\* lib.rs 325-330
set_auth_hook(t) ==
    /\ pc[t] = "sh"
    /\ auth_hook' = call[t].hook
    /\ Finish(t, Ok(""))
    /\ UNCHANGED << claims, caps, bindings, terminators, subscriptions,
                    workers, call, loc, ncalls, lattice_subs, nc >>

\* ------------------------------------------------------------ registry locks
\* The registries of the facade, each behind its own read-write lock.
Registries == {"claims", "caps", "bindings", "terminators"}

\* bind_actor_guards with the claims guard bound to a name that lives to the
\* end of the function
bind_actor_guards_kept == {"claims"}

\* lib.rs 397: the claims read guard is a temporary of the let statement; it is
\* dropped at the end of the statement, the cloned claims are what is kept
bind_actor_guards == {}

\* call_actor_guards with the claims guard bound to a name that lives to the
\* end of the function
call_actor_guards_kept == {"claims"}

\* lib.rs 454: the claims read guard is a temporary of the if condition and is
\* dropped before the block or the rest of the function runs
call_actor_guards == {}

\* The registry locks a caller thread holds between its steps: the guards that
\* outlive the statement that took them.
RegistryLocks(t) ==
    CASE pc[t] \in {"ba_invoke", "ba_recv", "ba_record"} -> bind_actor_guards
      [] pc[t] \in {"ca_invoke", "ca_recv"} -> call_actor_guards
      [] OTHER -> {}

\* The caller thread is inside bus.invoke: about to look the subject up, or
\* blocked on the reply.
InInvoke(t) == pc[t] \in {"ba_invoke", "ba_recv", "ca_invoke", "ca_recv"}

\* ------------------------------------------------------------ worker threads
\* spawning: subscribe to the subject, hand the shutdown sender to the facade
\* and signal readiness through the wait group
worker_ready(w) ==
    /\ w \in DOMAIN workers
    /\ workers[w].state = "spawning"
    /\ CanWriteSubscriptions
    /\ subscriptions' = subscribe(subscriptions, workers[w].subject, w)
    /\ terminators' = insert(terminators, workers[w].subject, w)
    /\ workers' = [workers EXCEPT ![w].state = "serving"]
    /\ UNCHANGED << claims, caps, bindings, auth_hook, pc, call, loc, ret, ncalls, lattice_subs, nc >>

\* The responses a worker may give to an invocation: the payload of the
\* sandbox or provider, or the error of any step.
Responses(inv) == { Response(inv.msg, NoError), Response("", SandboxError) }

\* The payload the module of revision rev returns: its revision to a ping,
\* the payload it was given to any other operation.
module_call(rev, operation, msg) ==
    IF operation = OP_PING THEN "v" \o ToString(rev) ELSE msg

\* The responses of an actor worker come from the module it runs.
WorkerResponses(w, inv) ==
    IF workers[w].kind = "actor"
    THEN { Response(module_call(workers[w].claims.rev, inv.operation, inv.msg), NoError),
           Response("", SandboxError) }
    ELSE Responses(inv)

\* serving: an invocation arrives on the inbound channel and is answered on
\* the outbound channel
worker_handle(w) ==
    /\ w \in DOMAIN workers
    /\ workers[w].state = "serving"
    /\ workers[w].inq # << >>
    /\ Head(workers[w].inq).operation # OP_PERFORM_LIVE_UPDATE
    /\ \E r \in WorkerResponses(w, Head(workers[w].inq)) :
         workers' = [workers EXCEPT ![w].inq = Tail(@), ![w].outq = Append(@, r)]
    /\ UNCHANGED << claims, caps, bindings, terminators, auth_hook, subscriptions,
                    pc, call, loc, ret, ncalls, lattice_subs, nc >>

\* serving: the worker thread panics.  Its ends of the two channels are
\* dropped, the invocations it had not read are lost, the replies it had
\* sent can still be received; its subscription and its terminator stay.
worker_die(w) ==
    /\ w \in DOMAIN workers
    /\ workers[w].state = "serving"
    /\ workers' = [workers EXCEPT ![w].state = "dead", ![w].inq = << >>]
    /\ UNCHANGED << claims, caps, bindings, terminators, auth_hook, subscriptions,
                    pc, call, loc, ret, ncalls, lattice_subs, nc >>

\* worker_swap_claims that keeps the module the worker runs
worker_swap_claims_kept(old, new_actor) == old

\* The claims of the module the worker runs after a hot swap.
worker_swap_claims(old, new_actor) == ClaimsOf(new_actor)

\* serving: the hot-swap message arrives on the inbound channel; the worker
\* recreates its sandbox from the new bytes, registers the new claims and
\* resumes, or answers with the error of the step that failed and keeps the
\* module it runs.  The messages behind it stay queued.
worker_swap(w) ==
    /\ w \in DOMAIN workers
    /\ workers[w].state = "serving"
    /\ workers[w].kind = "actor"
    /\ workers[w].inq # << >>
    /\ Head(workers[w].inq).operation = OP_PERFORM_LIVE_UPDATE
    /\ LET new_actor == Head(workers[w].inq).msg
       IN  \/ /\ workers' = [workers EXCEPT
                    ![w].inq = Tail(@),
                    ![w].claims = worker_swap_claims(@, new_actor),
                    ![w].outq = Append(@, Response("", NoError))]
              /\ claims' = register_claims(claims, new_actor.pk, ClaimsOf(new_actor))
           \/ /\ workers' = [workers EXCEPT
                    ![w].inq = Tail(@),
                    ![w].outq = Append(@, Response("", SandboxError))]
              /\ UNCHANGED claims
    /\ UNCHANGED << caps, bindings, terminators, auth_hook, subscriptions,
                    pc, call, loc, ret, ncalls, lattice_subs, nc >>

\* worker_bindings with the first row of the actor only
worker_bindings_first(bs, kind, pk) ==
    IF kind = "actor" /\ SelectSeq(bs, LAMBDA row : row[1] = pk) # << >>
    THEN << Head(SelectSeq(bs, LAMBDA row : row[1] = pk)) >>
    ELSE << >>

\* draining: all bindings whose first element equals the actor's pk
worker_bindings(bs, kind, pk) ==
    IF kind = "actor" THEN SelectSeq(bs, LAMBDA row : row[1] = pk) ELSE << >>

\* serving: the shutdown signal arrives; an actor is to be removed from the
\* providers of all of its bindings
worker_shutdown(w) ==
    /\ w \in DOMAIN workers
    /\ workers[w].state = "serving"
    /\ workers[w].term > 0
    /\ workers' = [workers EXCEPT
         ![w].term = @ - 1,
         ![w].state = "draining",
         ![w].rows = SelectSeq(bindings, LAMBDA row : row[1] = workers[w].pk),
         ![w].todo = worker_bindings(bindings, workers[w].kind, workers[w].pk)]
    /\ UNCHANGED << claims, caps, bindings, terminators, auth_hook, subscriptions,
                    pc, call, loc, ret, ncalls, lattice_subs, nc >>

\* draining: OP_REMOVE_ACTOR to the provider of the next binding (a bus
\* invoke: lookup and send); the invoke fails at once when the subject has
\* no subscriber, and the worker goes on to the next binding
worker_drain_invoke(w) ==
    /\ w \in DOMAIN workers
    /\ workers[w].state = "draining"
    /\ workers[w].todo # << >>
    /\ LET row == Head(workers[w].todo)
           subject == provider_subject(row[2], row[3])
           inv == Invocation(SYSTEM_ACTOR, TargetCapability(row[2], row[3]),
                             OP_REMOVE_ACTOR, row[1])
       IN  IF has_subscriber(subscriptions, subject)
           THEN workers' = [workers EXCEPT
                    ![subscriptions[subject]].inq = Append(@, inv),
                    ![w].state = "drain_wait",
                    ![w].sent = Append(@, << subject, OP_REMOVE_ACTOR >>),
                    ![w].wait = subscriptions[subject]]
           ELSE workers' = [workers EXCEPT
                    ![w].sent = Append(@, << subject, OP_REMOVE_ACTOR >>),
                    ![w].todo = Tail(@)]
    /\ UNCHANGED << claims, caps, bindings, terminators, auth_hook, subscriptions,
                    pc, call, loc, ret, ncalls, lattice_subs, nc >>

\* draining: the provider's reply to OP_REMOVE_ACTOR
worker_drain_recv(w) ==
    /\ w \in DOMAIN workers
    /\ workers[w].state = "drain_wait"
    /\ workers[workers[w].wait].outq # << >>
    /\ workers' = [workers EXCEPT
         ![workers[w].wait].outq = Tail(@),
         ![w].state = "draining",
         ![w].wait = 0,
         ![w].todo = Tail(@)]
    /\ UNCHANGED << claims, caps, bindings, terminators, auth_hook, subscriptions,
                    pc, call, loc, ret, ncalls, lattice_subs, nc >>

\* draining: unsubscribe from the bus
worker_unsubscribe(w) ==
    /\ w \in DOMAIN workers
    /\ workers[w].state = "draining"
    /\ workers[w].todo = << >>
    /\ CanWriteSubscriptions
    /\ subscriptions' = unsubscribe(subscriptions, workers[w].subject)
    /\ workers' = [workers EXCEPT ![w].state = "cleanup"]
    /\ UNCHANGED << claims, caps, bindings, terminators, auth_hook,
                    pc, call, loc, ret, ncalls, lattice_subs, nc >>

\* draining: remove the terminator, the binding rows and the capability
\* descriptor, and exit
worker_cleanup(w) ==
    /\ w \in DOMAIN workers
    /\ workers[w].state = "cleanup"
    /\ terminators' = remove(terminators, workers[w].subject)
    /\ IF workers[w].kind = "actor"
       THEN /\ bindings' = SelectSeq(bindings, LAMBDA row : row[1] # workers[w].pk)
            /\ UNCHANGED caps
       ELSE /\ bindings' = SelectSeq(bindings,
                   LAMBDA row : << row[3], row[2] >> # workers[w].key)
            /\ caps' = remove(caps, workers[w].key)
    /\ workers' = [workers EXCEPT
         ![w].state = "gone", ![w].inq = << >>, ![w].outq = << >>, ![w].term = 0]
    /\ UNCHANGED << claims, auth_hook, subscriptions, pc, call, loc, ret, ncalls, lattice_subs, nc >>

\* ------------------------------------------------------------- specification
\* WasccHost::new: empty registries, then ensure_extras loads the extras
\* provider under the default binding
ExtrasCap == MkCap(CAPABILITY_ID, DEFAULT_BINDING, "extras")
ExtrasSubject == provider_subject(CAPABILITY_ID, DEFAULT_BINDING)

Init ==
    /\ claims = << >>
    /\ caps = (route_key(DEFAULT_BINDING, CAPABILITY_ID) :> ExtrasCap.desc)
    /\ bindings = << >>
    /\ terminators = (ExtrasSubject :> 1)
    /\ auth_hook = None
    /\ subscriptions = (ExtrasSubject :> 1)
    /\ workers = << [spawn_native_capability(ExtrasCap) EXCEPT !.state = "serving"] >>
    /\ pc = [t \in Threads |-> "idle"]
    /\ call = [t \in Threads |-> NoCall]
    /\ loc = [t \in Threads |-> NoLoc]
    /\ ret = [t \in Threads |-> NoRet]
    /\ ncalls = 0
    /\ lattice_subs = << >>
    /\ nc = Connection

\* The steps of the operations in progress and of the workers.
Step ==
    \/ \E t \in Threads :
         \/ Return(t)
         \/ add_actor_check(t)
         \/ add_actor_auth(t)
         \/ add_actor_register(t)
         \/ add_actor_spawn(t)
         \/ add_actor_wait(t)
         \/ bind_actor_check(t)
         \/ bind_actor_invoke(t)
         \/ bind_actor_recv(t)
         \/ bind_actor_record(t)
         \/ call_actor_check(t)
         \/ call_actor_invoke(t)
         \/ call_actor_recv(t)
         \/ remove_actor(t)
         \/ add_native_capability_check(t)
         \/ add_native_capability_insert(t)
         \/ add_native_capability_spawn(t)
         \/ add_native_capability_wait(t)
         \/ remove_native_capability(t)
         \/ set_auth_hook(t)
    \/ \E w \in WorkerIds :
         \/ worker_ready(w)
         \/ worker_handle(w)
         \/ worker_shutdown(w)
         \/ worker_drain_invoke(w)
         \/ worker_drain_recv(w)
         \/ worker_unsubscribe(w)
         \/ worker_cleanup(w)

Next == (\E t \in Threads : Begin(t)) \/ Step

Spec == Init /\ [][Next]_vars

\* The host under callers that serialise the add_actor calls of one public key.
NextSerialAdds == (\E t \in Threads : BeginSerial(t)) \/ Step
SpecSerialAdds == Init /\ [][NextSerialAdds]_vars

\* ------------------------------------------------- the buses, called directly
\* The subjects, channel pairs and payloads of the callers of the bus.
BusSubjects == { actor_subject("MA"), provider_subject(HTTP, DEFAULT_BINDING) }
BusCall(op, subject, ch, msg) ==
    [op |-> op, actor |-> NoActor, cap |-> NoCap, pk |-> "", capid |-> "",
     binding_name |-> None, msg |-> msg, hook |-> None,
     subject |-> subject, ch |-> ch, operation |-> OP_INITIALIZE]
InprocCalls(t) ==
    { BusCall("subscribe", s, ch, "") : s \in BusSubjects, ch \in {1, 2} }
    \cup { BusCall("unsubscribe", s, 0, "") : s \in BusSubjects }
    \cup { BusCall("invoke", s, 0, MsgOf(t)) : s \in BusSubjects }
LatticeCalls(t) ==
    { BusCall("lattice_subscribe", s, ch, "") : s \in BusSubjects, ch \in {2, 3} }
    \cup { BusCall("lattice_unsubscribe", s, 0, "") : s \in BusSubjects }
    \cup { BusCall("lattice_invoke", s, 0, MsgOf(t)) : s \in BusSubjects }

\* The invocation a caller of invoke passes.
BusInvocation(t) ==
    Invocation(SYSTEM_ACTOR, TargetActor("MA"), OP_INITIALIZE, call[t].msg)

\* inproc.rs 18-29
inproc_subscribe(t) ==
    /\ pc[t] = "bs"
    /\ CanWriteSubscriptions
    /\ subscriptions' = subscribe(subscriptions, call[t].subject, call[t].ch)
    /\ Finish(t, Ok(""))
    /\ UNCHANGED << claims, caps, bindings, terminators, auth_hook, workers,
                    call, loc, ncalls, lattice_subs, nc >>

\* inproc.rs 45-51
inproc_unsubscribe(t) ==
    /\ pc[t] = "bu"
    /\ CanWriteSubscriptions
    /\ subscriptions' = unsubscribe(subscriptions, call[t].subject)
    /\ Finish(t, Ok(""))
    /\ UNCHANGED << claims, caps, bindings, terminators, auth_hook, workers,
                    call, loc, ncalls, lattice_subs, nc >>

\* invoke_no_subscribers with the missing subscriber passed over
invoke_no_subscribers_ignored == Ok("")

\* inproc.rs 38-41: the result of invoke for a subject with no subscription
invoke_no_subscribers == Err("MiscHost", NoSubscribers)

\* inproc.rs 31-34 and 38-42: the lookup under the read lock and the send on
\* the subscriber's inbound channel
inproc_invoke(t) ==
    /\ pc[t] = "bi"
    /\ IF has_subscriber(subscriptions, call[t].subject)
       THEN /\ workers' = [workers EXCEPT
                 ![subscriptions[call[t].subject]].inq = Append(@, BusInvocation(t))]
            /\ loc' = [loc EXCEPT ![t].sub = call[t].subject,
                                  ![t].ch = subscriptions[call[t].subject],
                                  ![t].inv = BusInvocation(t)]
            /\ Goto(t, "bi_recv")
            /\ UNCHANGED ret
       ELSE /\ Finish(t, invoke_no_subscribers)
            /\ UNCHANGED << workers, loc >>
    /\ UNCHANGED << claims, caps, bindings, terminators, auth_hook, subscriptions,
                    call, ncalls, lattice_subs, nc >>

\* inproc.rs 35-36: the blocking receive on the subscriber's outbound channel
inproc_invoke_recv(t) ==
    /\ pc[t] = "bi_recv"
    /\ workers[loc[t].ch].outq # << >>
    /\ LET r == Head(workers[loc[t].ch].outq)
       IN  /\ workers' = [workers EXCEPT ![loc[t].ch].outq = Tail(@)]
           /\ loc' = [loc EXCEPT ![t].resp = r]
           /\ Finish(t, Ok(r))
    /\ UNCHANGED << claims, caps, bindings, terminators, auth_hook, subscriptions,
                    call, ncalls, lattice_subs, nc >>

\* lattice.rs 35-41: queue_subscribe(subject, subject)? with the handler
\* thread; the server accepts any number of members of a queue group, the
\* call fails only with the connection
lattice_subscribe(t) ==
    /\ pc[t] = "ls"
    /\ \E accepted \in BOOLEAN :
         IF accepted
         THEN /\ nc' = [nc EXCEPT !.qsubs =
                          Append(@, QueueSubscription(call[t].subject, call[t].ch))]
              /\ loc' = [loc EXCEPT ![t].ch = Len(nc.qsubs) + 1]
              /\ Goto(t, "ls_insert")
              /\ UNCHANGED ret
         ELSE /\ Finish(t, Err("IO", "queue_subscribe failed"))
              /\ UNCHANGED << nc, loc >>
    /\ UNCHANGED << claims, caps, bindings, terminators, auth_hook, subscriptions,
                    workers, call, ncalls, lattice_subs >>

\* lattice.rs 42-43: the handler is filed under the subject; a handler filed
\* there before is dropped, which may or may not close its subscription
lattice_subscribe_insert(t) ==
    /\ pc[t] = "ls_insert"
    /\ lattice_subs' = insert(lattice_subs, call[t].subject, loc[t].ch)
    /\ IF contains_key(lattice_subs, call[t].subject)
       THEN \E closes \in BOOLEAN :
              nc' = [nc EXCEPT !.qsubs[lattice_subs[call[t].subject]].live = @ /\ ~closes]
       ELSE UNCHANGED nc
    /\ Finish(t, Ok(""))
    /\ UNCHANGED << claims, caps, bindings, terminators, auth_hook, subscriptions,
                    workers, call, loc, ncalls >>

\* lattice.rs 55: the subscription table after unsubscribe(subject)
lattice_unsubscribe_table(table, subject) ==
    IF contains_key(table, subject) THEN remove(table, subject) ELSE table

\* lattice.rs 54-59
lattice_unsubscribe(t) ==
    /\ pc[t] = "lu"
    /\ lattice_subs' = lattice_unsubscribe_table(lattice_subs, call[t].subject)
    /\ IF contains_key(lattice_subs, call[t].subject)
       THEN \E closed \in BOOLEAN :
              IF closed
              THEN /\ nc' = [nc EXCEPT !.qsubs[lattice_subs[call[t].subject]].live = FALSE]
                   /\ Finish(t, Ok(""))
              ELSE /\ Finish(t, Err("IO", "unsubscribe failed"))
                   /\ UNCHANGED nc
       ELSE /\ Finish(t, Ok(""))
            /\ UNCHANGED nc
    /\ UNCHANGED << claims, caps, bindings, terminators, auth_hook, subscriptions,
                    workers, call, loc, ncalls >>

\* lattice.rs 47-49: get_timeout() reads the environment, request_timeout
\* publishes the request; the server hands it to one member of the subject's
\* queue group, to nobody when there is none
lattice_invoke(t) ==
    /\ pc[t] = "li"
    /\ \E published \in BOOLEAN :
         IF published
         THEN /\ \E env \in EnvValues :
                 \E sid \in IF Members(call[t].subject) = {} THEN {0}
                            ELSE Members(call[t].subject) :
                   nc' = [nc EXCEPT !.reqs[t] =
                            Request(call[t].subject, serialize(BusInvocation(t)),
                                    env, sid)]
              /\ loc' = [loc EXCEPT ![t].sub = call[t].subject, ![t].inv = BusInvocation(t)]
              /\ Goto(t, "li_wait")
              /\ UNCHANGED ret
         ELSE /\ Finish(t, Err("IO", "publish failed"))
              /\ UNCHANGED << nc, loc >>
    /\ UNCHANGED << claims, caps, bindings, terminators, auth_hook, subscriptions,
                    workers, call, ncalls, lattice_subs >>

\* lattice.rs 62-68: the handler thread of a queue subscription takes a
\* request and sends the invocation on the inbound channel
handle_invocation(sid, t) ==
    /\ sid \in DOMAIN nc.qsubs
    /\ nc.qsubs[sid].live
    /\ nc.qsubs[sid].busy = 0
    /\ nc.reqs[t].to = sid
    /\ ~nc.reqs[t].taken
    /\ workers' = [workers EXCEPT
         ![nc.qsubs[sid].ch].inq = Append(@, deserialize(nc.reqs[t].data))]
    /\ nc' = [nc EXCEPT !.qsubs[sid].busy = t, !.reqs[t].taken = TRUE]
    /\ UNCHANGED << claims, caps, bindings, terminators, auth_hook, subscriptions,
                    pc, call, loc, ret, ncalls, lattice_subs >>

\* lattice.rs 69-70: the handler thread receives the response on the outbound
\* channel and responds; a reply to a request that was given up is dropped
handle_invocation_respond(sid) ==
    /\ sid \in DOMAIN nc.qsubs
    /\ nc.qsubs[sid].busy # 0
    /\ workers[nc.qsubs[sid].ch].outq # << >>
    /\ LET t == nc.qsubs[sid].busy
           inv_r == Head(workers[nc.qsubs[sid].ch].outq)
       IN  /\ workers' = [workers EXCEPT ![nc.qsubs[sid].ch].outq = Tail(@)]
           /\ nc' = IF nc.reqs[t].to = sid /\ nc.reqs[t].taken
                    THEN [nc EXCEPT !.qsubs[sid].busy = 0,
                                    !.reqs[t].replied = TRUE,
                                    !.reqs[t].reply = serialize(inv_r)]
                    ELSE [nc EXCEPT !.qsubs[sid].busy = 0]
    /\ UNCHANGED << claims, caps, bindings, terminators, auth_hook, subscriptions,
                    pc, call, loc, ret, ncalls, lattice_subs >>

\* timed_out with a wait that has no end
timed_out_never(elapsed, env) == FALSE

\* lattice.rs 49: request_timeout gives up once get_timeout() has passed
timed_out(elapsed, env) == elapsed >= get_timeout(env)

\* Time passes for a caller that waits for its reply, up to the timeout.
lattice_tick(t) ==
    /\ pc[t] = "li_wait"
    /\ ~nc.reqs[t].replied
    /\ nc.reqs[t].elapsed < get_timeout(nc.reqs[t].env)
    /\ nc' = [nc EXCEPT !.reqs[t].elapsed = @ + TickMillis]
    /\ UNCHANGED << claims, caps, bindings, terminators, auth_hook, subscriptions,
                    workers, pc, call, loc, ret, ncalls, lattice_subs >>

\* lattice.rs 49: the timeout of request_timeout, returned by the ? operator
lattice_invoke_timeout(t) ==
    /\ pc[t] = "li_wait"
    /\ ~nc.reqs[t].replied
    /\ timed_out(nc.reqs[t].elapsed, nc.reqs[t].env)
    /\ nc' = [nc EXCEPT !.reqs[t] = NoRequest]
    /\ Finish(t, Err("IO", "timed out"))
    /\ UNCHANGED << claims, caps, bindings, terminators, auth_hook, subscriptions,
                    workers, call, loc, ncalls, lattice_subs >>

\* lattice.rs 49-51: the reply arrived in time
lattice_invoke_reply(t) ==
    /\ pc[t] = "li_wait"
    /\ nc.reqs[t].replied
    /\ nc' = [nc EXCEPT !.reqs[t] = NoRequest]
    /\ loc' = [loc EXCEPT ![t].resp = deserialize(nc.reqs[t].reply)]
    /\ Finish(t, Ok(deserialize(nc.reqs[t].reply)))
    /\ UNCHANGED << claims, caps, bindings, terminators, auth_hook, subscriptions,
                    workers, call, ncalls, lattice_subs >>

\* A channel pair with the thread that answers what arrives on it.
ChannelPair == [MkWorker("channels", "", "", << "", "" >>, NoClaims) EXCEPT !.state = "serving"]

\* Both buses after construction and one subscribe each: the first subject is
\* subscribed with channel pair 1 in process and with channel pair 3 on the
\* lattice, the second subject has no subscriber.
InitBus ==
    /\ claims = << >>
    /\ caps = << >>
    /\ bindings = << >>
    /\ terminators = << >>
    /\ auth_hook = None
    /\ subscriptions = (actor_subject("MA") :> 1)
    /\ workers = [w \in WorkerIds |-> ChannelPair]
    /\ pc = [t \in Threads |-> "idle"]
    /\ call = [t \in Threads |-> NoCall]
    /\ loc = [t \in Threads |-> NoLoc]
    /\ ret = [t \in Threads |-> NoRet]
    /\ ncalls = 0
    /\ lattice_subs = (actor_subject("MA") :> 1)
    /\ nc = [qsubs |-> << QueueSubscription(actor_subject("MA"), 3) >>,
             reqs |-> [t \in Threads |-> NoRequest]]

QsubIds == 1 .. (MaxCalls + 1)

BeginInproc(t) == BeginWith(t, InprocCalls(t))
BeginLattice(t) == BeginWith(t, LatticeCalls(t))

StepInproc ==
    \E t \in Threads :
      \/ inproc_subscribe(t)
      \/ inproc_unsubscribe(t)
      \/ inproc_invoke(t)
      \/ inproc_invoke_recv(t)

StepLattice ==
    \/ \E t \in Threads :
         \/ lattice_subscribe(t)
         \/ lattice_subscribe_insert(t)
         \/ lattice_unsubscribe(t)
         \/ lattice_invoke(t)
         \/ lattice_tick(t)
         \/ lattice_invoke_timeout(t)
         \/ lattice_invoke_reply(t)
    \/ \E sid \in QsubIds :
         \/ \E t \in Threads : handle_invocation(sid, t)
         \/ handle_invocation_respond(sid)

\* Callers that use the two buses directly.
NextBus ==
    \/ \E t \in Threads : BeginInproc(t) \/ BeginLattice(t) \/ Return(t)
    \/ StepInproc
    \/ StepLattice
    \/ \E w \in WorkerIds : worker_handle(w)
SpecBus == InitBus /\ [][NextBus]_vars

\* Callers that use the lattice bus only, every step that can be taken
\* forever being taken in the end.
NextLattice ==
    \/ \E t \in Threads : BeginLattice(t) \/ Return(t)
    \/ StepLattice
    \/ \E w \in WorkerIds : worker_handle(w)
SpecLatticeFair ==
    /\ InitBus
    /\ [][NextLattice]_vars
    /\ \A t \in Threads : WF_vars(lattice_tick(t)) /\ WF_vars(lattice_invoke_timeout(t))
                          /\ WF_vars(lattice_invoke_reply(t))

\* ------------------------------------------- a host with a bound actor
\* The host after add_native_capability of the HTTP provider, add_actor of
\* actor MA and bind_actor of MA to the HTTP and to the extras provider, all
\* under the default binding: the registries and the three serving workers.
BoundActor == MkActor("MA", {HTTP}, TRUE, 1)
HttpCap == MkCap(HTTP, DEFAULT_BINDING, "d1")
HttpSubject == provider_subject(HTTP, DEFAULT_BINDING)

InitBound ==
    /\ claims = register_claims(<< >>, BoundActor.pk, ClaimsOf(BoundActor))
    /\ caps = (route_key(DEFAULT_BINDING, CAPABILITY_ID) :> ExtrasCap.desc)
              @@ (route_key(DEFAULT_BINDING, HTTP) :> HttpCap.desc)
    /\ bindings = record_binding(record_binding(<< >>, BoundActor.pk, HTTP, DEFAULT_BINDING),
                                 BoundActor.pk, CAPABILITY_ID, DEFAULT_BINDING)
    /\ terminators = (ExtrasSubject :> 1) @@ (HttpSubject :> 2)
                     @@ (actor_subject(BoundActor.pk) :> 3)
    /\ auth_hook = None
    /\ subscriptions = (ExtrasSubject :> 1) @@ (HttpSubject :> 2)
                       @@ (actor_subject(BoundActor.pk) :> 3)
    /\ workers = << [spawn_native_capability(ExtrasCap) EXCEPT !.state = "serving"],
                    [spawn_native_capability(HttpCap) EXCEPT !.state = "serving"],
                    [spawn_actor(BoundActor) EXCEPT !.state = "serving"] >>
    /\ pc = [t \in Threads |-> "idle"]
    /\ call = [t \in Threads |-> NoCall]
    /\ loc = [t \in Threads |-> NoLoc]
    /\ ret = [t \in Threads |-> NoRet]
    /\ ncalls = 0
    /\ lattice_subs = << >>
    /\ nc = Connection

\* The callers remove the actor and the HTTP provider while others bind and
\* call the actor.
RemoveCalls(t) ==
    { c \in Calls(t) : \/ c.op \in {"remove_actor", "remove_native_capability"}
                       \/ c.op \in {"bind_actor", "call_actor"} /\ c.pk = BoundActor.pk }

StepRemove ==
    \/ \E t \in Threads :
         \/ Return(t)
         \/ bind_actor_check(t)
         \/ bind_actor_invoke(t)
         \/ bind_actor_recv(t)
         \/ bind_actor_record(t)
         \/ call_actor_check(t)
         \/ call_actor_invoke(t)
         \/ call_actor_recv(t)
         \/ remove_actor(t)
         \/ remove_native_capability(t)
    \/ \E w \in WorkerIds :
         \/ worker_handle(w)
         \/ worker_shutdown(w)
         \/ worker_drain_invoke(w)
         \/ worker_drain_recv(w)
         \/ worker_unsubscribe(w)
         \/ worker_cleanup(w)

NextRemove == (\E t \in Threads : BeginWith(t, RemoveCalls(t))) \/ StepRemove
SpecRemove == InitBound /\ [][NextRemove]_vars

\* The steps of one caller thread and of one worker thread.  Every thread
\* that can run is scheduled eventually; callers need not start new calls.
ThreadStepRemove(t) ==
    \/ Return(t)
    \/ bind_actor_check(t)
    \/ bind_actor_invoke(t)
    \/ bind_actor_recv(t)
    \/ bind_actor_record(t)
    \/ call_actor_check(t)
    \/ call_actor_invoke(t)
    \/ call_actor_recv(t)
    \/ remove_actor(t)
    \/ remove_native_capability(t)
WorkerStepRemove(w) ==
    \/ worker_handle(w)
    \/ worker_shutdown(w)
    \/ worker_drain_invoke(w)
    \/ worker_drain_recv(w)
    \/ worker_unsubscribe(w)
    \/ worker_cleanup(w)
SpecRemoveFair ==
    /\ SpecRemove
    /\ \A t \in Threads : WF_vars(ThreadStepRemove(t))
    /\ \A w \in WorkerIds : WF_vars(WorkerStepRemove(w))

\* The callers call and bind the actor while worker threads may die.
DeathCalls(t) ==
    { c \in Calls(t) : c.op \in {"bind_actor", "call_actor"} /\ c.pk = BoundActor.pk }

StepDeath ==
    \/ \E t \in Threads :
         \/ Return(t)
         \/ bind_actor_check(t)
         \/ bind_actor_invoke(t)
         \/ bind_actor_recv(t)
         \/ bind_actor_recv_disconnected(t)
         \/ bind_actor_record(t)
         \/ call_actor_check(t)
         \/ call_actor_invoke(t)
         \/ call_actor_recv(t)
         \/ call_actor_recv_disconnected(t)
    \/ \E w \in WorkerIds :
         \/ worker_handle(w)
         \/ worker_die(w)

NextDeath == (\E t \in Threads : BeginWith(t, DeathCalls(t))) \/ StepDeath
SpecDeath == InitBound /\ [][NextDeath]_vars

\* The callers replace the module of the bound actor by its next revision
\* (or try to replace an actor that is not resident) while others ping it.
NewActor == MkActor(BoundActor.pk, {HTTP}, TRUE, 2)
ReplaceCalls(t) ==
    { MkCall("replace_actor", a, NoCap, "", "", None, "", None) :
        a \in {NewActor, MkActor("MB", {HTTP}, TRUE, 2)} }
    \cup { [MkCall("call_actor", NoActor, NoCap, BoundActor.pk, "", None, MsgOf(t), None)
              EXCEPT !.operation = OP_PING] }

StepReplace ==
    \/ \E t \in Threads :
         \/ Return(t)
         \/ call_actor_check(t)
         \/ call_actor_invoke(t)
         \/ call_actor_recv(t)
         \/ replace_actor(t)
         \/ replace_actor_recv(t)
    \/ \E w \in WorkerIds :
         \/ worker_handle(w)
         \/ worker_swap(w)

NextReplace == (\E t \in Threads : BeginWith(t, ReplaceCalls(t))) \/ StepReplace
SpecReplace == InitBound /\ [][NextReplace]_vars

\* ------------------------------------------------------------------ claims
\* An actor worker that serves and has been sent no shutdown signal.
Resident(w) ==
    /\ w \in DOMAIN workers
    /\ workers[w].kind = "actor"
    /\ workers[w].state = "serving"
    /\ workers[w].term = 0

Occurrences(list, pk) == Cardinality({ i \in 1 .. Len(list) : list[i][1] = pk })

Live(w) == workers[w].state \in {"spawning", "serving"} /\ workers[w].term = 0

Succeeded(t, op) == pc[t] = "done" /\ call[t].op = op /\ ret[t].kind = "Ok"
Failed(t, op, kind) ==
    pc[t] = "done" /\ call[t].op = op /\ ret[t].kind = "Err" /\ ret[t].err = kind

\* C2: no two actors with one public key are resident: of the add_actor calls
\* for one pk with no remove_actor in between, also when they run concurrently,
\* at most one succeeds and at most one worker is spawned for actor_subject(pk).
C2_OneResidentPerKey ==
    /\ \A w1, w2 \in DOMAIN workers :
         (/\ workers[w1].kind = "actor" /\ workers[w2].kind = "actor"
          /\ workers[w1].pk = workers[w2].pk
          /\ Live(w1) /\ Live(w2))
         => w1 = w2
    /\ \A t, u \in Threads :
         (/\ Succeeded(t, "add_actor") /\ Succeeded(u, "add_actor")
          /\ call[t].actor.pk = call[u].actor.pk
          /\ Live(loc[t].ch) /\ Live(loc[u].ch))
         => t = u

\* C3: of the add_native_capability calls for one (capid, binding) with no
\* removal in between, in any interleaving, at most one succeeds and at most
\* one worker is spawned; the descriptor in caps is that of the call that
\* succeeded.
C3_OneProviderPerKey ==
    /\ \A w1, w2 \in DOMAIN workers :
         (/\ workers[w1].kind = "provider" /\ workers[w2].kind = "provider"
          /\ workers[w1].key = workers[w2].key
          /\ Live(w1) /\ Live(w2))
         => w1 = w2
    /\ \A t, u \in Threads :
         (/\ Succeeded(t, "add_native_capability")
          /\ Succeeded(u, "add_native_capability")
          /\ call[t].cap.capid = call[u].cap.capid
          /\ call[t].cap.binding_name = call[u].cap.binding_name
          /\ Live(loc[t].ch) /\ Live(loc[u].ch))
         => t = u

\* C4: when add_actor or add_native_capability returns the error of claims
\* validation, of the auth hook or of the spawn step, the call has inserted no
\* registry entry: its claims are not in the claims map, its descriptor is not
\* in the caps map.
C4_NoEntryOnError ==
    \A t \in Threads :
      (pc[t] = "done" /\ ret[t].kind = "Err"
         /\ ret[t].err \in {"ClaimsValidation", "Authorization", "Spawn"})
      => /\ call[t].op = "add_actor"
              => ~(/\ contains_key(claims, call[t].actor.pk)
                   /\ claims[call[t].actor.pk] = ClaimsOf(call[t].actor))
         /\ call[t].op = "add_native_capability"
              => ~(/\ contains_key(caps, route_key(call[t].cap.binding_name, call[t].cap.capid))
                   /\ caps[route_key(call[t].cap.binding_name, call[t].cap.capid)]
                        = call[t].cap.desc)

\* C5: when the response to call_actor's invocation carries an error,
\* call_actor returns an error with that text, never Ok(payload).
C5_ErrorSurfaced ==
    \A t \in Threads :
      (pc[t] = "done" /\ call[t].op = "call_actor" /\ loc[t].resp.error # NoError)
      => ret[t].kind = "Err" /\ ret[t].val = loc[t].resp.error

\* C6: a row enters the bindings list only in bind_actor, after the
\* configuration invocation for that very triple was sent on the bus and its
\* response came back without an error; a bus error or a response with an
\* error ends bind_actor with a CapabilityProvider error and the list as it was.
C6_BindingAfterConfig ==
    [][ /\ Len(bindings') > Len(bindings)
          => \E t \in Threads :
               LET a == BindArgs(t)
                   b == unwrap_or_default(a.binding_name)
               IN  /\ pc[t] = "ba_record" /\ pc'[t] = "done"
                   /\ bindings' = Append(bindings, << a.actor, a.capid, b >>)
                   /\ loc[t].inv = gen_config_invocation(a.actor, a.capid, b)
                   /\ loc[t].resp.error = NoError
        /\ \A t \in Threads :
             (pc[t] = "ba_invoke" /\ pc'[t] # "ba_invoke")
             => IF has_subscriber(subscriptions, loc[t].sub)
                THEN LET a == BindArgs(t)
                         ch == subscriptions[loc[t].sub]
                     IN  /\ pc'[t] = "ba_recv"
                         /\ workers'[ch].inq = Append(workers[ch].inq,
                               gen_config_invocation(a.actor, a.capid,
                                                     unwrap_or_default(a.binding_name)))
                         /\ bindings' = bindings
                ELSE /\ pc'[t] = "done"
                     /\ ret'[t].kind = "Err" /\ ret'[t].err = "CapabilityProvider"
                     /\ bindings' = bindings
        /\ \A t \in Threads :
             (/\ pc[t] = "ba_recv" /\ pc'[t] # "ba_recv"
              /\ Head(workers[loc[t].ch].outq).error # NoError)
             => /\ pc'[t] = "done"
                /\ ret'[t].kind = "Err" /\ ret'[t].err = "CapabilityProvider"
                /\ bindings' = bindings
      ]_vars

\* C6 witness: a bind_actor has returned Ok and its triple is in the list.
C6_Witness ==
    \E t \in Threads :
      /\ Succeeded(t, "bind_actor")
      /\ \E i \in 1 .. Len(bindings) :
           bindings[i] = << call[t].pk, call[t].capid, unwrap_or_default(call[t].binding_name) >>

\* C7: bind_actor for a resident actor whose claims do not authorize capid
\* returns an Authorization error, sends nothing on the bus and records nothing.
C7_UnauthorizedBind ==
    [][ \A t \in Threads :
          (/\ pc[t] = "ba_check" /\ pc'[t] # "ba_check"
           /\ contains_key(claims, BindArgs(t).actor)
           /\ ~can_invoke(claims[BindArgs(t).actor], BindArgs(t).capid))
          => /\ pc'[t] = "done"
             /\ ret'[t].kind = "Err" /\ ret'[t].err = "Authorization"
             /\ workers' = workers
             /\ bindings' = bindings
      ]_vars

\* C7 witness: a bind_actor of a registered actor was denied.
C7_Witness ==
    \E t \in Threads :
      /\ Failed(t, "bind_actor", "Authorization")
      /\ contains_key(claims, call[t].pk)
      /\ ~can_invoke(claims[call[t].pk], call[t].capid)

\* C8: bind_actor for a pk with no entry in the claims map returns a MiscHost
\* error before any authorization check or bus invocation and changes no
\* registry.
C8_BindUnknownActor ==
    [][ \A t \in Threads :
          (/\ pc[t] = "ba_check" /\ pc'[t] # "ba_check"
           /\ ~contains_key(claims, BindArgs(t).actor))
          => /\ pc'[t] = "done"
             /\ ret'[t].kind = "Err" /\ ret'[t].err = "MiscHost"
             /\ UNCHANGED << claims, caps, bindings, terminators, subscriptions, workers >>
      ]_vars

\* C8 witness: a bind_actor of an unregistered pk has failed.
C8_Witness ==
    \E t \in Threads :
      /\ Failed(t, "bind_actor", "MiscHost")
      /\ ~contains_key(claims, call[t].pk)

\* C9: add_actor for a pk already in the claims map returns the MiscHost
\* error "already in this host" and changes nothing: claims, bindings,
\* terminators and subscriptions stay, no worker is spawned.
C9_DuplicateActor ==
    [][ \A t \in Threads :
          (/\ pc[t] = "aa_check" /\ pc'[t] # "aa_check"
           /\ contains_key(claims, call[t].actor.pk))
          => /\ pc'[t] = "done"
             /\ ret'[t] = Err("MiscHost", "already in this host")
             /\ UNCHANGED << claims, caps, bindings, terminators, subscriptions, workers >>
      ]_vars

\* C9 witness: the second add_actor failed while the first one's actor is
\* resident.
C9_Witness ==
    \E t \in Threads :
      /\ Failed(t, "add_actor", "MiscHost")
      /\ \E w \in DOMAIN workers : Resident(w) /\ workers[w].pk = call[t].actor.pk

\* C10: remove_actor(pk) for a pk without a terminator returns an error value
\* and changes no registry; with a terminator it sends one shutdown signal to
\* that worker and returns Ok at once.
C10_RemoveActor ==
    [][ \A t \in Threads :
          (pc[t] = "ra" /\ pc'[t] # "ra")
          => LET subject == actor_subject(call[t].pk)
             IN  /\ pc'[t] = "done"
                 /\ UNCHANGED << claims, caps, bindings, terminators, subscriptions >>
                 /\ IF contains_key(terminators, subject)
                    THEN /\ ret'[t].kind = "Ok"
                         /\ workers' = [workers EXCEPT ![terminators[subject]].term = @ + 1]
                    ELSE /\ ret'[t].kind = "Err"
                         /\ workers' = workers
      ]_vars

\* C11: remove_native_capability(capid, binding) with a terminator under
\* provider_subject(capid, binding or "default") sends one shutdown signal to
\* that worker and returns Ok; without one it returns a MiscHost error, sends
\* no signal to any worker and leaves all registries unchanged.
C11_RemoveNativeCapability ==
    [][ \A t \in Threads :
          (pc[t] = "rn" /\ pc'[t] # "rn")
          => LET subject == provider_subject(call[t].capid,
                                             unwrap_or_default(call[t].binding_name))
             IN  /\ pc'[t] = "done"
                 /\ IF contains_key(terminators, subject)
                    THEN /\ ret'[t].kind = "Ok"
                         /\ workers' = [workers EXCEPT ![terminators[subject]].term = @ + 1]
                    ELSE /\ ret'[t].kind = "Err" /\ ret'[t].err = "MiscHost"
                         /\ workers' = workers
                         /\ UNCHANGED << claims, caps, bindings, terminators,
                                         subscriptions >>
      ]_vars

\* C11 witness: a provider under the default binding name was sent the
\* shutdown signal by a remove_native_capability that named no binding.
C11_Witness ==
    \E t \in Threads :
      /\ Succeeded(t, "remove_native_capability")
      /\ call[t].binding_name = None
      /\ \E w \in DOMAIN workers :
           /\ workers[w].subject = provider_subject(HTTP, DEFAULT_BINDING)
           /\ workers[w].state # "spawning"

C13_InvokeNoSubscriber ==
    [][ \A t \in Threads :
          (/\ pc[t] = "bi" /\ pc'[t] # "bi"
           /\ ~contains_key(subscriptions, call[t].subject))
          => /\ pc'[t] = "done"
             /\ ret'[t].kind = "Err"
             /\ ret'[t].val = NoSubscribers
             /\ workers' = workers
             /\ subscriptions' = subscriptions
      ]_vars

\* C13 witness: an invoke for the subject nobody subscribed has returned its
\* error while the other subject has its subscriber.
C13_Witness ==
    \E t \in Threads :
      /\ Failed(t, "invoke", "MiscHost")
      /\ call[t].subject = provider_subject(HTTP, DEFAULT_BINDING)
      /\ ~contains_key(subscriptions, call[t].subject)
      /\ contains_key(subscriptions, actor_subject("MA"))

\* C14: on both transports unsubscribe(subject) on a subject with no
\* subscription returns Ok and changes nothing; a second unsubscribe leaves
\* the table as the first left it; the subscriptions of other subjects stay.
C14_UnsubscribeIdempotent ==
    [][ \A t \in Threads :
          /\ (pc[t] = "bu" /\ pc'[t] # "bu")
             => /\ ~contains_key(subscriptions, call[t].subject)
                     => /\ ret'[t].kind = "Ok"
                        /\ subscriptions' = subscriptions
                        /\ workers' = workers
                /\ ~contains_key(subscriptions', call[t].subject)
                /\ unsubscribe(subscriptions', call[t].subject) = subscriptions'
                /\ \A s \in DOMAIN subscriptions \ {call[t].subject} :
                     contains_key(subscriptions', s) /\ subscriptions'[s] = subscriptions[s]
          /\ (pc[t] = "lu" /\ pc'[t] # "lu")
             => /\ ~contains_key(lattice_subs, call[t].subject)
                     => /\ ret'[t].kind = "Ok"
                        /\ lattice_subs' = lattice_subs
                        /\ nc' = nc
                /\ ~contains_key(lattice_subs', call[t].subject)
                /\ lattice_unsubscribe_table(lattice_subs', call[t].subject) = lattice_subs'
                /\ \A s \in DOMAIN lattice_subs \ {call[t].subject} :
                     contains_key(lattice_subs', s) /\ lattice_subs'[s] = lattice_subs[s]
                /\ \A sid \in DOMAIN nc.qsubs :
                     nc.qsubs[sid].subject # call[t].subject
                     => nc'.qsubs[sid] = nc.qsubs[sid]
      ]_vars

\* C14 witness: unsubscribe has been applied twice to the subscribed subject,
\* both calls have returned and the other transport's table still holds it.
C14_Witness ==
    \E t, u \in Threads :
      /\ t # u
      /\ Succeeded(t, "unsubscribe") /\ Succeeded(u, "unsubscribe")
      /\ call[t].subject = actor_subject("MA") /\ call[u].subject = actor_subject("MA")
      /\ ~contains_key(subscriptions, actor_subject("MA"))
      /\ contains_key(lattice_subs, actor_subject("MA"))

\* C15: in process a subject has at most one subscriber: subscribe on a
\* subscribed subject returns Ok and replaces the channel pair; the table
\* changes through subscribe and unsubscribe only; an invoke is delivered to
\* the channel pair the table holds for the subject and to no other.
C15_OneSubscriberPerSubject ==
    [][ /\ \A t \in Threads :
             (pc[t] = "bs" /\ pc'[t] # "bs")
             => /\ pc'[t] = "done"
                /\ ret'[t].kind = "Ok"
                /\ subscriptions' =
                     [s \in DOMAIN subscriptions \cup {call[t].subject} |->
                        IF s = call[t].subject THEN call[t].ch ELSE subscriptions[s]]
        /\ \A t \in Threads :
             (pc[t] = "bi" /\ pc'[t] = "bi_recv")
             => \A w \in DOMAIN workers :
                  workers'[w].inq =
                    IF w = subscriptions[call[t].subject]
                    THEN Append(workers[w].inq, BusInvocation(t))
                    ELSE workers[w].inq
        /\ subscriptions' # subscriptions
             => \E t \in Threads : pc[t] \in {"bs", "bu"} /\ pc'[t] = "done"
      ]_vars

\* C15 witness: the subject subscribed with channel pair 1 was subscribed
\* again with pair 2, and an invoke after that was delivered to pair 2 only.
C15_Witness ==
    \E t, u \in Threads :
      /\ Succeeded(u, "subscribe")
      /\ call[u].subject = actor_subject("MA") /\ call[u].ch = 2
      /\ pc[t] = "bi_recv" /\ call[t].subject = actor_subject("MA")
      /\ workers[2].inq = << BusInvocation(t) >>
      /\ workers[1].inq = << >>

\* C16: on the lattice, subscribe on a subject this host has subscribed is
\* rejected: no handler is added or replaced, the subscription recorded for
\* the subject stays the only one.
C16_LatticeDuplicateRejected ==
    [][ \A t \in Threads :
          /\ (/\ pc[t] = "ls" /\ pc'[t] # "ls"
              /\ contains_key(lattice_subs, call[t].subject))
             => /\ pc'[t] = "done"
                /\ ret'[t].kind = "Err"
                /\ nc' = nc
                /\ lattice_subs' = lattice_subs
          /\ (/\ pc[t] = "ls_insert" /\ pc'[t] # "ls_insert"
              /\ contains_key(lattice_subs, call[t].subject))
             => lattice_subs' = lattice_subs
      ]_vars

\* C17: on the lattice every invoke ends; one that no subscriber took ends
\* with the I/O error of the timeout, once the configured timeout has passed.
C17_LatticeInvokeTerminates ==
    /\ \A t \in Threads : (pc[t] = "li_wait") ~> (pc[t] = "done")
    /\ [][ \A t \in Threads :
             (pc[t] = "li_wait" /\ pc'[t] # "li_wait" /\ ~nc.reqs[t].taken)
             => /\ pc'[t] = "done"
                /\ ret'[t].kind = "Err"
                /\ ret'[t].err = "IO"
                /\ nc.reqs[t].elapsed >= get_timeout(nc.reqs[t].env)
         ]_vars

\* C17 witness: an invoke on the subject without subscriber has returned the
\* timeout error.
C17_Witness ==
    \E t \in Threads :
      /\ Failed(t, "lattice_invoke", "IO")
      /\ ret[t].val = "timed out"
      /\ Members(call[t].subject) = {}
      /\ ~contains_key(lattice_subs, call[t].subject)

\* C20: in process every invoke returns the response the subscriber produced
\* for that very invocation, also when several threads invoke one subject at
\* once.
C20_OwnResponse ==
    \A t \in Threads :
      (/\ pc[t] = "done" /\ call[t].op = "invoke" /\ ret[t].kind = "Ok"
       /\ loc[t].resp.error = NoError)
      => loc[t].resp.msg = call[t].msg

\* Two invocations are the same message.
SameInv(a, b) == a.operation = b.operation /\ a.target = b.target /\ a.msg = b.msg

C19_RemoveDrainsBindings ==
    \A w \in DOMAIN workers :
        (workers[w].kind = "actor" /\ workers[w].state \in {"cleanup", "gone"})
        => /\ workers[w].todo = << >>
           /\ \A i \in DOMAIN workers[w].rows :
                \E j \in DOMAIN workers[w].sent :
                    workers[w].sent[j] = << provider_subject(workers[w].rows[i][2],
                                                             workers[w].rows[i][3]),
                                            OP_REMOVE_ACTOR >>
           /\ workers[w].state = "cleanup"
                => contains_key(terminators, workers[w].subject)

\* The actor bound to two providers is gone after its removal, both of its
\* binding rows found.
C19_Witness ==
    /\ workers[3].state = "gone"
    /\ Len(workers[3].rows) = 2
    /\ workers[3].rows[1][2] # workers[3].rows[2][2]
    /\ ~contains_key(terminators, actor_subject(BoundActor.pk))
    /\ ~has_subscriber(subscriptions, actor_subject(BoundActor.pk))

\* C23: the step in which add_actor consults the auth hook for a token that
\* validates ends the call with an Authorization error when a hook is set and
\* returns false for the token, and in that step no claims are registered, no
\* worker is spawned and no subscription or terminator is created; the call
\* then only returns.  With no hook set the step goes on to register.
C23_AuthHookDenies ==
    [][ \A t \in Threads :
          /\ (pc[t] = "aa_auth" /\ pc'[t] # "aa_auth" /\ call[t].actor.valid)
             => /\ (auth_hook # None /\ ~HookVerdict(auth_hook, call[t].actor))
                   => /\ pc'[t] = "done"
                      /\ ret'[t].kind = "Err"
                      /\ ret'[t].err = "Authorization"
                      /\ claims' = claims
                      /\ workers' = workers
                      /\ subscriptions' = subscriptions
                      /\ terminators' = terminators
                      /\ bindings' = bindings
                /\ auth_hook = None => pc'[t] = "aa_register"
          /\ (Failed(t, "add_actor", "Authorization") /\ pc'[t] # pc[t])
             => /\ pc'[t] = "idle"
                /\ claims' = claims
                /\ workers' = workers
                /\ subscriptions' = subscriptions
      ]_vars

\* add_actor of MB has been denied by the hook that accepts MA only: MB has
\* no claims, no worker and no subscription.
C23_Witness ==
    \E t \in Threads :
        /\ Failed(t, "add_actor", "Authorization")
        /\ auth_hook = "only_MA"
        /\ call[t].actor.pk = "MB"
        /\ ~contains_key(claims, "MB")
        /\ ~has_subscriber(subscriptions, actor_subject("MB"))
        /\ \A w \in DOMAIN workers : workers[w].pk # "MB"

\* The subject a bind_actor of (actor, capid, binding name) is to address.
BindSubject(actor, capid, binding_name) ==
    IF (actor = capid \/ actor = "system") /\ capid \in {"MA", "MB"}
    THEN "wasmbus.actor." \o actor
    ELSE "wasmbus.provider." \o capid \o "."
         \o (IF binding_name = None THEN "default" ELSE binding_name)

\* C24: the step in which bind_actor invokes the bus puts its OP_BIND_ACTOR
\* invocation on the inbound channel of the subscriber of exactly one
\* subject, the actor subject when the actor configures itself as an
\* M-prefixed pseudo-provider and the provider subject of capid and the
\* binding name (or "default") otherwise, and on no other channel; with no
\* subscriber there it sends nothing; no other step of the call sends.
C24_BindTargetSubject ==
    [][ \A t \in Threads :
          LET a == BindArgs(t)
              expected == BindSubject(a.actor, a.capid, a.binding_name)
          IN  /\ (pc[t] = "ba_invoke" /\ pc'[t] # "ba_invoke")
                 => IF expected \in DOMAIN subscriptions
                    THEN /\ pc'[t] = "ba_recv"
                         /\ \A w \in DOMAIN workers :
                              IF w = subscriptions[expected]
                              THEN /\ Len(workers'[w].inq) = Len(workers[w].inq) + 1
                                   /\ SubSeq(workers'[w].inq, 1, Len(workers[w].inq))
                                        = workers[w].inq
                                   /\ workers'[w].inq[Len(workers'[w].inq)].operation
                                        = OP_BIND_ACTOR
                                   /\ workers'[w].inq[Len(workers'[w].inq)].msg = a.actor
                              ELSE workers'[w].inq = workers[w].inq
                    ELSE pc'[t] = "done" /\ ret'[t].kind = "Err" /\ workers' = workers
              /\ (pc[t] \in {"ba_check", "ba_recv", "ba_record"} /\ pc'[t] # pc[t])
                 => \A w \in DOMAIN workers : workers'[w].inq = workers[w].inq
      ]_vars

\* Actor MA, which may use the capability "MA", configures itself: its
\* bind_actor("MA", "MA") waits for the reply of the worker of MA's own
\* actor subject.
C24_Witness ==
    \E t \in Threads :
        /\ pc[t] = "ba_recv"
        /\ call[t].op = "bind_actor"
        /\ call[t].pk = "MA"
        /\ call[t].capid = "MA"
        /\ loc[t].sub = "wasmbus.actor.MA"
        /\ workers[loc[t].ch].pk = "MA"

\* C25: in the step in which an add_actor returns Ok, the bindings list holds
\* the row (pk, "wascc:extras", "default") when the actor declares the extras
\* capability; no step of the add_actor of an actor that does not declare it
\* changes the bindings list.
C25_ExtrasBinding ==
    [][ \A t \in Threads :
          call[t].op = "add_actor"
          => /\ (pc[t] # "done" /\ pc'[t] = "done" /\ ret'[t].kind = "Ok"
                 /\ "wascc:extras" \in call[t].actor.caps)
                => \E i \in DOMAIN bindings' :
                     bindings'[i] = << call[t].actor.pk, "wascc:extras", "default" >>
             /\ ("wascc:extras" \notin call[t].actor.caps /\ pc'[t] # pc[t])
                => bindings' = bindings
      ]_vars

\* add_actor of MB, which declares the extras capability, has returned Ok and
\* the bindings list holds its default binding to the extras provider.
C25_Witness ==
    \E t \in Threads :
        /\ Succeeded(t, "add_actor")
        /\ "wascc:extras" \in call[t].actor.caps
        /\ Len(bindings) = 1
        /\ bindings[1] = << call[t].actor.pk, "wascc:extras", "default" >>

\* C21: under fair scheduling a worker that has been sent its shutdown signal
\* eventually completes its drain (it has unsubscribed and its terminator is
\* removed), and a caller blocked in a bus invoke eventually has its result.
C21_RemovalCompletes ==
    /\ \A w \in WorkerIds :
         (w \in DOMAIN workers /\ workers[w].term > 0)
         ~> (workers[w].state = "gone"
             /\ ~contains_key(terminators, workers[w].subject)
             /\ ~has_subscriber(subscriptions, workers[w].subject))
    /\ \A t \in Threads :
         (pc[t] \in {"ba_recv", "ca_recv"}) ~> (pc[t] = "done")

\* C22: a call_actor or bind_actor addressed to a subject whose worker has
\* died ends with an error value: the calling thread does not panic.
C22_WorkerFailureConfined ==
    \A t \in Threads :
        (pc[t] = "done" /\ call[t].op \in {"call_actor", "bind_actor"}
         /\ \E w \in DOMAIN workers : workers[w].state = "dead")
        => ret[t].kind = "Err"

====
